---- MODULE Spec2Model ----
(***************************************************************************)
(* Request-scoped change capture and realtime propagation.                 *)
(*                                                                         *)
(* Part 1 (SpecCtx): the request context manager of                        *)
(*   quasar_api/context/manager.py and its Redis session manager           *)
(*   quasar_api/context/redis.py, run by cooperative asyncio tasks.        *)
(* Part 2 (SpecAct): one call of ResourceManager.action                    *)
(*   (src/jsalchemy_api/resources/manager.py) with the change interceptor  *)
(*   (src/jsalchemy_api/interceptors.py) and the Messanger                 *)
(*   (src/jsalchemy_api/resources/propagation.py).                         *)
(* Further parts: serialize_results (SpecSer), the ContextProxy across     *)
(*   spawned tasks (SpecFork), login and logout (SpecLogin), a verb that   *)
(*   loads an entity twice (SpecReload), the realtime gateway of           *)
(*   realtime.py (SpecWs, SpecGw) and M2MResource.add (SpecAssoc).         *)
(***************************************************************************)
EXTENDS Integers, Sequences, FiniteSets, TLC

----------------------------------------------------------------------------
(* Bounds *)

MaxScopes == 2
MaxDepth == 2
MaxCommits == 1
MaxNest == 2
MaxChildren == 2
MaxObjects == 2
MaxMessages == 2
MaxLoads == 2
MaxQueue == 4

\* Two asyncio tasks, each with its own copy of the context variables.
Tasks == {1, 2}
Tokens == {"T1", "T2", "T3", "T4", "T5"}
Keys == {"foo"}

----------------------------------------------------------------------------
(* Session store records: what the Redis key session:<token> holds.        *)
(*   missing    : GET returns None                                          *)
(*   unpickling : pickle.loads raises UnpicklingError (garbage bytes)       *)
(*   eof        : pickle.loads raises EOFError (truncated or empty bytes)   *)
(*   ok         : a pickled dict, data = the dict (0 = key absent)          *)

EmptyContent == [k \in Keys |-> 0]
Missing == [kind |-> "missing", data |-> EmptyContent]
CorruptUnpickling == [kind |-> "unpickling", data |-> EmptyContent]
CorruptEOF == [kind |-> "eof", data |-> EmptyContent]
Pickled(content) == [kind |-> "ok", data |-> content]

\* The store at start: two live sessions, a token with no record, and two
\* records that do not deserialize.
InitStore ==
  [tok \in Tokens |->
     CASE tok \in {"T1", "T2"} -> Pickled(EmptyContent)
       [] tok = "T3" -> Missing
       [] tok = "T4" -> CorruptUnpickling
       [] OTHER -> CorruptEOF]

VARIABLES
  store,     \* Redis: token -> record
  scopes,    \* the objects made by each successful __aenter__, by scope id:
             \*   the RedisSession (token, content), the Request (marker) and
             \*   the data handle (commits, rollbacks)
  bind,      \* the ContextVars session/request/db as each task sees them
  stack,     \* per task: ids of the Context objects entered and not exited
  pc,        \* per task: "idle" (running, not suspended), "connect" and
             \*   "new_set" (suspended in the session manager), "unwind" (an
             \*   exception is propagating), "dead" (the task ended with it)
  raw,       \* per task: the record a suspended connect() has fetched
  arg,       \* per task: the token of the call in flight
  exc        \* per task: where the exception in flight was raised, and its type

ctxVars == <<store, scopes, bind, stack, pc, raw, arg, exc>>

NoExc == [op |-> "none", type |-> "none"]
Unbound == [session |-> 0, request |-> 0, db |-> 0]

InitCtx ==
  /\ store = InitStore
  /\ scopes = << >>
  /\ bind = [t \in Tasks |-> Unbound]
  /\ stack = [t \in Tasks |-> << >>]
  /\ pc = [t \in Tasks |-> "idle"]
  /\ raw = [t \in Tasks |-> Missing]
  /\ arg = [t \in Tasks |-> "none"]
  /\ exc = [t \in Tasks |-> NoExc]

Top(t) == stack[t][Len(stack[t])]
InScope(t) == Len(stack[t]) > 0

\* An exception raised in task t propagates: through the enclosing scopes'
\* __aexit__ when there are any, else it ends the task.
Propagate(t, stk) == IF Len(stk) > 0 THEN "unwind" ELSE "dead"

\* A task that ends takes its copy of the context variables with it.
BindAfter(t, stk, to) == IF to = "dead" THEN [bind EXCEPT ![t] = Unbound] ELSE bind

----------------------------------------------------------------------------
(* RedisSessionManager *)

\* `raise SessionNotFound(...)`: the module never imports nor defines the
\* name, so evaluating it raises NameError.
RaiseSessionNotFound == "NameError"

\* connect(token), after the awaited GET returned `rec`.
ConnectOutcome(rec) ==
  CASE rec.kind = "missing" -> RaiseSessionNotFound
    [] rec.kind = "unpickling" -> RaiseSessionNotFound
    [] rec.kind = "eof" -> "EOFError"
    [] OTHER -> "ok"

\* The call disconnect(self.session, self.token) made by __aexit__ against the
\* signature disconnect(self, session): one positional argument too many.
\* The result names the exception raised and the store afterwards.
DisconnectCall(st, content, token) ==
  [type |-> "TypeError", store |-> st]

\* The unpacking `self.token, self.session = await new()`: new() returns one
\* RedisSession, and iterating it iterates the keys of its content.
UnpackNew(content) ==
  IF Cardinality({k \in Keys : content[k] # 0}) = 2 THEN "ok" ELSE "ValueError"

----------------------------------------------------------------------------
(* ContextManager.Context.__aenter__ *)

\* token given: connect() suspends on the GET.
ConnectGet(t, tok) ==
  /\ pc[t] = "idle"
  /\ Len(stack[t]) < MaxDepth
  /\ Len(scopes) < MaxScopes
  /\ pc' = [pc EXCEPT ![t] = "connect"]
  /\ raw' = [raw EXCEPT ![t] = store[tok]]
  /\ arg' = [arg EXCEPT ![t] = tok]
  /\ UNCHANGED <<store, scopes, bind, stack, exc>>

NewScope(t, tok, content) ==
  [task |-> t, token |-> tok, content |-> content, marker |-> 0,
   commits |-> 0, rollbacks |-> 0, exited |-> "no", saved |-> FALSE]

\* __aenter__ over proxies that keep one request binding for the whole
\* process instead of one per task.
BindScopeShared(t, tok, content) ==
  LET id == Len(scopes) + 1 IN
  /\ scopes' = Append(scopes, NewScope(t, tok, content))
  /\ bind' = [u \in Tasks |->
                IF u = t THEN [session |-> id, request |-> id, db |-> id]
                ELSE [bind[u] EXCEPT !.request = id]]
  /\ stack' = [stack EXCEPT ![t] = Append(@, id)]
  /\ pc' = [pc EXCEPT ![t] = "idle"]
  /\ UNCHANGED <<exc>>

\* The rest of __aenter__, which runs without suspending: session.update,
\* request.update(Request()), db.update(session_maker()).
BindScope(t, tok, content) ==
  LET id == Len(scopes) + 1 IN
  /\ scopes' = Append(scopes, NewScope(t, tok, content))
  /\ bind' = [bind EXCEPT ![t] = [session |-> id, request |-> id, db |-> id]]
  /\ stack' = [stack EXCEPT ![t] = Append(@, id)]
  /\ pc' = [pc EXCEPT ![t] = "idle"]
  /\ UNCHANGED <<exc>>

\* An entry that raises: nothing is bound.
EntryRaises(t, op, type) ==
  /\ exc' = [exc EXCEPT ![t] = [op |-> op, type |-> type]]
  /\ pc' = [pc EXCEPT ![t] = Propagate(t, stack[t])]
  /\ bind' = BindAfter(t, stack[t], Propagate(t, stack[t]))
  /\ UNCHANGED <<scopes, stack>>

\* connect() resumes.
ConnectResume(t) ==
  /\ pc[t] = "connect"
  /\ raw' = [raw EXCEPT ![t] = Missing]
  /\ arg' = [arg EXCEPT ![t] = "none"]
  /\ IF ConnectOutcome(raw[t]) = "ok"
       THEN BindScope(t, arg[t], raw[t].data)
       ELSE EntryRaises(t, "connect", ConnectOutcome(raw[t]))
  /\ UNCHANGED store

\* new(token): u is the token asked for or the uuid drawn; the call suspends
\* on KEYS until it has a token that no key holds.
NewKeys(t, u) ==
  /\ pc[t] = "idle"
  /\ Len(stack[t]) < MaxDepth
  /\ Len(scopes) < MaxScopes
  /\ store[u].kind = "missing"
  /\ pc' = [pc EXCEPT ![t] = "new_set"]
  /\ arg' = [arg EXCEPT ![t] = u]
  /\ UNCHANGED <<store, scopes, bind, stack, raw, exc>>

\* new() resumes: SET of the empty record, then __aenter__ unpacks the result.
NewSet(t) ==
  /\ pc[t] = "new_set"
  /\ store' = [store EXCEPT ![arg[t]] = Pickled(EmptyContent)]
  /\ arg' = [arg EXCEPT ![t] = "none"]
  /\ IF UnpackNew(EmptyContent) = "ok"
       THEN BindScope(t, arg[t], EmptyContent)
       ELSE EntryRaises(t, "new", UnpackNew(EmptyContent))
  /\ UNCHANGED raw

----------------------------------------------------------------------------
(* The body of a scope, through the ContextProxy objects *)

\* request.marker = <a value distinct per scope>
WriteMarker(t) ==
  /\ pc[t] = "idle" /\ InScope(t)
  /\ scopes' = [scopes EXCEPT ![bind[t].request].marker = Top(t)]
  /\ UNCHANGED <<store, bind, stack, pc, raw, arg, exc>>

\* The value `request.marker` evaluates to in task t (0: AttributeError).
ReadMarker(t) == scopes[bind[t].request].marker

\* session[k] = <a value distinct per scope>
SessionSet(t, k) ==
  /\ pc[t] = "idle" /\ InScope(t)
  /\ scopes' = [scopes EXCEPT ![bind[t].session].content[k] = Top(t)]
  /\ UNCHANGED <<store, bind, stack, pc, raw, arg, exc>>

\* the body raises
BodyRaise(t) ==
  /\ pc[t] = "idle" /\ InScope(t)
  /\ pc' = [pc EXCEPT ![t] = "unwind"]
  /\ exc' = [exc EXCEPT ![t] = [op |-> "body", type |-> "Exception"]]
  /\ UNCHANGED <<store, scopes, bind, stack, raw, arg>>

----------------------------------------------------------------------------
(* ContextManager.Context.__aexit__ *)

\* __aexit__ of the innermost scope of task t; raised: the body raised.
\* self.session and self.token are the Context's own; db is whatever the
\* proxy is bound to in the task.
AExit(t, raised) ==
  LET id == Top(t)
      h == bind[t].db
      d == DisconnectCall(store, scopes[id].content, scopes[id].token)
      rest == SubSeq(stack[t], 1, Len(stack[t]) - 1)
      ended == [scopes EXCEPT ![id].exited = IF raised THEN "raised" ELSE "normal",
                              ![id].saved = (d.type = "none")]
      to == IF d.type # "none" \/ raised THEN Propagate(t, rest) ELSE "idle"
  IN /\ store' = d.store
     /\ stack' = [stack EXCEPT ![t] = rest]
     /\ IF d.type # "none"
          THEN /\ scopes' = ended
               /\ exc' = [exc EXCEPT ![t] = [op |-> "exit", type |-> d.type]]
          ELSE /\ scopes' = IF raised THEN [ended EXCEPT ![h].rollbacks = @ + 1]
                                      ELSE [ended EXCEPT ![h].commits = @ + 1]
               /\ UNCHANGED exc
     /\ pc' = [pc EXCEPT ![t] = to]
     /\ bind' = BindAfter(t, rest, to)
     /\ UNCHANGED <<raw, arg>>

\* the body completed
ExitNormal(t) ==
  /\ pc[t] = "idle" /\ InScope(t)
  /\ AExit(t, FALSE)

\* an exception leaves the body
ExitRaised(t) ==
  /\ pc[t] = "unwind" /\ InScope(t)
  /\ AExit(t, TRUE)

\* __aexit__ of the innermost scope of task t raises, and the code around
\* the `async with` catches the exception: the task runs on in the enclosing
\* scope, or outside any scope.  __aexit__ leaves the context variables as
\* they are.
ExitCaught(t) ==
  LET id == Top(t)
      d == DisconnectCall(store, scopes[id].content, scopes[id].token)
  IN /\ pc[t] \in {"idle", "unwind"} /\ InScope(t)
     /\ d.type # "none"
     /\ store' = d.store
     /\ stack' = [stack EXCEPT ![t] = SubSeq(@, 1, Len(@) - 1)]
     /\ scopes' = [scopes EXCEPT ![id].exited = IF pc[t] = "unwind" THEN "raised"
                                                                    ELSE "normal"]
     /\ exc' = [exc EXCEPT ![t] = NoExc]
     /\ pc' = [pc EXCEPT ![t] = "idle"]
     /\ UNCHANGED <<bind, raw, arg>>

----------------------------------------------------------------------------
(* Part 2.  One call of ResourceManager.action, run by task ActTask with    *)
(* token ActToken.  The data handle is an ORM session over one mapped       *)
(* class; the database already holds entity 1, and entity 2 can be created. *)

ActTask == CHOOSE t \in Tasks : \A u \in Tasks : t <= u
ActToken == "T1"
Ids == {1, 2}
Fields == {"a", "b"}
Vals == {0, 1}

Rows == [Fields -> Vals]
NoRow == [f \in Fields |-> -1]
NoObj == [st |-> "none", vals |-> NoRow, mod |-> FALSE]

\* ResultData(): the five slots, of which the change-set uses four.
EmptyResultData == [new |-> {}, update |-> {}, delete |-> {}, m2m |-> << >>]

VARIABLES
  rows,       \* the committed table: id -> row, or NoRow
  txRows,     \* the table as the scope's open transaction sees it
  txOpen,     \* the scope's handle has flushed or read in a transaction that
              \*   is neither committed nor rolled back
  objs,       \* the handle's objects by id: st is "none", "pending" (added),
              \*   "persistent", "deleted" (marked by db.delete) or "gone";
              \*   mod: an attribute was set since the last flush
  created,    \* ids of the entities created in the scope
  result,     \* request.result, the ResultData that flushes write and that
              \*   ResourceManager.changes reduces
  tracker,    \* request.tracker, the ResultData start_record() makes and
              \*   ChangeInterceptor.changes returns
  loaded,     \* request.loaded[<class name>]: the snapshots, in load order
  m2mEvents,  \* the append/remove events the ORM has fired on the relation
  changeDict, \* change_dict of action(), once self.changes has run
  queue,      \* the Redis list the Messanger pushes to
  actPc       \* where the call of action() is

actVars == <<rows, txRows, txOpen, objs, created, result, tracker, loaded,
             m2mEvents, changeDict, queue, actPc>>

VARIABLES
  directResult, \* what the business action returned
  payload       \* what action() returned: kind "none" (not yet), "changes"
                \*   (the change dict with body as its 'payload') or
                \*   "validation" (the '$validation' dict)

respVars == <<directResult, payload>>

VARIABLES
  started,   \* the tasks that run: 0 is the main task, the others are spawned
  proxyBind, \* per task: the object its copy of the proxy's ContextVar holds
             \*   (0: none)
  heap       \* the objects bound so far; bar: the tasks that set a key of it

forkVars == <<started, proxyBind, heap>>

VARIABLES
  login,     \* per task: where its call of ResourceManager.login is (st) and
             \*   the user the authentication manager returned (0: none)
  logout     \* per token: what the last logout(token) returned ("": no call)

loginVars == <<login, logout>>

VARIABLES
  wsUsers,   \* WSServer.users: user id -> connection (0: no entry)
  wsGroups,  \* WSServer.groups: group id -> list of connections
  wsConn     \* per gateway connection: st "open" or "closed", the handler's
             \*   local `session` (has: a dict was loaded), the number of
             \*   TOKEN messages it has accepted and the return that ended it

wsVars == <<wsUsers, wsGroups, wsConn>>

VARIABLES
  gwStart,   \* WSServer.start(): "no" (not called), "running" (the server
             \*   and the two read_redis loops run), or the exception raised
  gwQueue    \* the Redis list the Messanger pushes to and read_redis pops

gwVars == <<gwStart, gwQueue>>

VARIABLES
  assocFk,   \* whether the database enforces the foreign keys of the
             \*   association table (the default sqlite database does not)
  assocRows, \* the committed rows of the association table: (local, remote)
  assocTx,   \* the open transaction of the handle: the association rows it
             \*   sees (pairs) and whether it holds another uncommitted change
             \*   made earlier in the scope (other)
  assocCall  \* the last call of M2MResource.add: its keys, what it returned
             \*   and a bit n that flips with every call

assocVars == <<assocFk, assocRows, assocTx, assocCall>>

vars == <<ctxVars, actVars, respVars, forkVars, loginVars, wsVars, gwVars, assocVars>>

----------------------------------------------------------------------------
(* Values an action returns and what serialize_results makes of them.       *)
(* k: "none" (None), "scalar", "entity" (a mapped object: type, id),        *)
(* "dict" (items: its values; no key is '_' or '__'), "list", "tuple",      *)
(* "set"; in the output also "ref" ({'$ref': [type, id]}) and "full"        *)
(* (the serialization: id, vals).                                           *)

Value(k, type, id, vals, items) ==
  [k |-> k, type |-> type, id |-> id, vals |-> vals, items |-> items]
NoneValue == Value("none", "", 0, NoRow, << >>)
Scalar == Value("scalar", "", 0, NoRow, << >>)
Entity(type, i) == Value("entity", type, i, NoRow, << >>)
Container(k, items) == Value(k, "", 0, NoRow, items)
NotSerializable == Value("TypeError", "", 0, NoRow, << >>)

\* The mapped classes, and those with a resource in ResourceManager.resources.
Types == {"Folder", "Other"}
Registered == {"Folder"}

NoPayload == [kind |-> "none", body |-> NoneValue]


NotMade == [made |-> FALSE, keys |-> {}, update |-> {}, new |-> {}, m2m |-> << >>]

\* The table at start: entity 1 with every column 0.
InitRows == [i \in Ids |-> IF i = 1 THEN [f \in Fields |-> 0] ELSE NoRow]

InitAct ==
  /\ rows = InitRows
  /\ txRows = rows
  /\ txOpen = FALSE
  /\ objs = [i \in Ids |-> NoObj]
  /\ created = {}
  /\ result = EmptyResultData
  /\ tracker = [bound |-> FALSE, data |-> EmptyResultData]
  /\ loaded = [bound |-> FALSE, items |-> << >>]
  /\ m2mEvents = << >>
  /\ changeDict = NotMade
  /\ queue = << >>
  /\ actPc = "call"

InitResp ==
  /\ directResult = NoneValue
  /\ payload = NoPayload

ForkTasks == 0..MaxChildren

InitFork ==
  /\ started = {0}
  /\ proxyBind = [t \in ForkTasks |-> 0]
  /\ heap = << >>

\* The users the authentication manager knows.
UserIds == {1, 2, 3}

InitLogin ==
  /\ login = [t \in Tasks |-> [st |-> "idle", user |-> 0]]
  /\ logout = [tok \in Tokens |-> ""]

Conns == {1, 2}
WsUserIds == {1, 2}
GroupIds == {1, 2}
NoSession == [has |-> FALSE, user_id |-> 0, has_groups |-> FALSE, group_ids |-> {}]

InitWs ==
  /\ wsUsers = [u \in WsUserIds |-> 0]
  /\ wsGroups = [g \in GroupIds |-> << >>]
  /\ wsConn = [c \in Conns |-> [st |-> "open", session |-> NoSession, msgs |-> 0, ended |-> ""]]

\* The messages action() calls push.
Messages == {"m1", "m2", "m3"}

InitGw ==
  /\ gwStart = "no"
  /\ gwQueue = << >>

\* The keys of the two tables an association row refers to, and the keys
\* that have a row.
Locals == {1, 2}
Remotes == {1, 2}
ExistingLocals == {1, 2}
ExistingRemotes == {1}
Pairs == Locals \X Remotes

InitAssoc ==
  /\ assocFk = FALSE
  /\ assocRows = {}
  /\ assocTx = [pairs |-> {}, other |-> FALSE]
  /\ assocCall = [n |-> 0, keys |-> {}, ret |-> {}]

Init ==
  /\ InitCtx /\ InitAct /\ InitResp /\ InitFork /\ InitLogin /\ InitWs
  /\ InitGw /\ InitAssoc

----------------------------------------------------------------------------
(* Serialization and diff *)

\* resource.serialize(obj): the column values and the id.
Serialize(i, vals) == [id |-> i, vals |-> vals]

\* A diff that reports every field of b.
dict_diff_all(a, b) == {f \in Fields : TRUE}

\* dict_diff(a, b) on two serializations of one entity: the fields of b that
\* a lacks or holds with another value (the ids are equal).
dict_diff(a, b) == {f \in Fields : a.vals[f] # b.vals[f]}

\* The snapshot ResourceManager.changes finds for id i:
\* {x['id']: x for x in items} keeps the last item of each id.
Previous(items, i) ==
  LET idx == {n \in 1..Len(items) : items[n].id = i}
  IN IF idx = {} THEN [id |-> 0, vals |-> NoRow]
     ELSE items[CHOOSE n \in idx : \A m \in idx : m <= n]

\* `obj[key]` on a ResultData, which defines no __getitem__.
SubscriptResultData == "TypeError"

----------------------------------------------------------------------------
(* The ORM session: what session.new, session.dirty and session.deleted hold *)

SessionNew == {i \in Ids : objs[i].st = "pending"}
SessionDeleted == {i \in Ids : objs[i].st = "deleted"}
SessionDirty == {i \in Ids : objs[i].st = "persistent" /\ objs[i].mod}

\* flush() returns at once when nothing is pending, dirty or deleted.
IsClean == SessionNew = {} /\ SessionDeleted = {} /\ SessionDirty = {}

\* ChangeInterceptor._on_before_flush: the ResultData after the handler, and
\* the exception it raises ("none": it returns).
OnBeforeFlush(res) ==
  LET r1 == IF SessionNew # {} THEN [res EXCEPT !.new = @ \cup SessionNew] ELSE res
  IN IF SessionDeleted # {}
       THEN [result |-> r1, type |-> SubscriptResultData]
       ELSE [result |-> IF SessionDirty # {}
                          THEN [r1 EXCEPT !.update = @ \cup SessionDirty]
                          ELSE r1,
             type |-> "none"]

\* The unit of work writes the rows of the flushed objects.
FlushedRows ==
  [i \in Ids |->
     CASE objs[i].st = "pending" -> objs[i].vals
       [] objs[i].st = "persistent" /\ objs[i].mod -> objs[i].vals
       [] objs[i].st = "deleted" -> NoRow
       [] OTHER -> txRows[i]]

FlushedObjs ==
  [i \in Ids |->
     CASE objs[i].st = "pending" -> [objs[i] EXCEPT !.st = "persistent", !.mod = FALSE]
       [] objs[i].st = "persistent" -> [objs[i] EXCEPT !.mod = FALSE]
       [] objs[i].st = "deleted" -> [objs[i] EXCEPT !.st = "gone", !.mod = FALSE]
       [] OTHER -> objs[i]]

\* An exception leaves the code running in the scope of ActTask.
Raise(op, type) ==
  /\ pc' = [pc EXCEPT ![ActTask] = "unwind"]
  /\ exc' = [exc EXCEPT ![ActTask] = [op |-> op, type |-> type]]
  /\ actPc' = "raised"

\* db.flush(), or with `commit` the flush db.commit() starts with and the
\* commit after it: before_flush, then the writes.  `next` is where the
\* caller goes on.
Flush(next, commit) ==
  IF IsClean
    THEN /\ actPc' = next
         /\ txOpen' = IF commit THEN FALSE ELSE txOpen
         /\ rows' = IF commit THEN txRows ELSE rows
         /\ UNCHANGED <<result, txRows, objs, pc, exc>>
    ELSE LET h == OnBeforeFlush(result) IN
         /\ result' = h.result
         /\ IF h.type # "none"
              THEN /\ Raise(IF commit THEN "commit" ELSE "flush", h.type)
                   /\ UNCHANGED <<rows, txRows, txOpen, objs>>
              ELSE /\ txRows' = FlushedRows
                   /\ objs' = FlushedObjs
                   /\ txOpen' = ~commit
                   /\ rows' = IF commit THEN FlushedRows ELSE rows
                   /\ actPc' = next
                   /\ UNCHANGED <<pc, exc>>

InBody == actPc = "body" /\ pc[ActTask] = "idle"

----------------------------------------------------------------------------
(* What the code running in the scope does (the business action) *)

\* interceptor.start_record()
StartRecord ==
  /\ InBody
  /\ tracker' = [bound |-> TRUE, data |-> EmptyResultData]
  /\ loaded' = [bound |-> TRUE, items |-> << >>]
  /\ UNCHANGED <<ctxVars, rows, txRows, txOpen, objs, created, result,
                 m2mEvents, changeDict, queue, actPc>>

\* db.add(Model(id=i, ...))
Create(i, vals) ==
  /\ InBody
  /\ objs[i].st = "none" /\ txRows[i] = NoRow
  /\ objs' = [objs EXCEPT ![i] = [st |-> "pending", vals |-> vals, mod |-> FALSE]]
  /\ created' = created \cup {i}
  /\ UNCHANGED <<ctxVars, rows, txRows, txOpen, result, tracker, loaded,
                 m2mEvents, changeDict, queue, actPc>>

\* await db.get(Model, i) of a row the handle holds no object for: the object
\* is built from the row and the load event runs _load_model, which appends
\* the serialization to request.loaded.
Load(i) ==
  /\ InBody
  /\ objs[i].st = "none" /\ txRows[i] # NoRow
  /\ txOpen' = TRUE
  /\ IF loaded.bound
       THEN /\ loaded' = [loaded EXCEPT !.items = Append(@, Serialize(i, txRows[i]))]
            /\ objs' = [objs EXCEPT ![i] =
                          [st |-> "persistent", vals |-> txRows[i], mod |-> FALSE]]
            /\ UNCHANGED <<pc, exc, actPc>>
       ELSE /\ Raise("load", "AttributeError")
            /\ UNCHANGED <<loaded, objs>>
  /\ UNCHANGED <<store, scopes, bind, stack, raw, arg, rows, txRows, created,
                 result, tracker, m2mEvents, changeDict, queue>>

\* obj.f = v.  Setting an attribute of a persistent object marks it modified,
\* whether or not the value changes.
Modify(i, f, v) ==
  /\ InBody
  /\ objs[i].st \in {"pending", "persistent"}
  /\ objs' = [objs EXCEPT ![i].vals[f] = v,
                          ![i].mod = (objs[i].st = "persistent")]
  /\ UNCHANGED <<ctxVars, rows, txRows, txOpen, created, result, tracker, loaded,
                 m2mEvents, changeDict, queue, actPc>>

\* await db.delete(obj)
Delete(i) ==
  /\ InBody
  /\ objs[i].st = "persistent"
  /\ objs' = [objs EXCEPT ![i].st = "deleted"]
  /\ UNCHANGED <<ctxVars, rows, txRows, txOpen, created, result, tracker, loaded,
                 m2mEvents, changeDict, queue, actPc>>

\* ChangeInterceptor._m2m_append / _m2m_remove, run by the ORM before it
\* applies an append or remove on a many-to-many collection:
\* self.changes['m2m'].append((op, ...)) evaluates request.tracker and then
\* subscripts it.
M2MHandler(op, owner, related) ==
  IF tracker.bound THEN SubscriptResultData ELSE "AttributeError"

M2MEvent(op, owner, related) ==
  /\ InBody
  /\ objs[owner].st \in {"pending", "persistent"}
  /\ objs[related].st \in {"pending", "persistent"}
  /\ m2mEvents' = Append(m2mEvents, <<op, owner, related>>)
  /\ Raise("m2m", M2MHandler(op, owner, related))
  /\ UNCHANGED <<store, scopes, bind, stack, raw, arg, rows, txRows, txOpen,
                 objs, created, result, tracker, loaded, changeDict, queue>>

\* await db.flush() in the body
BodyFlush ==
  /\ InBody
  /\ ~IsClean
  /\ Flush("body", FALSE)
  /\ UNCHANGED <<store, scopes, bind, stack, raw, arg, created, tracker,
                 loaded, m2mEvents, changeDict, queue>>

\* await db.commit() in the body
BodyCommit ==
  /\ InBody
  /\ scopes[bind[ActTask].db].commits < MaxCommits
  /\ Flush("body", TRUE)
  /\ scopes' = IF actPc' = "raised" THEN scopes
               ELSE [scopes EXCEPT ![bind[ActTask].db].commits = @ + 1]
  /\ UNCHANGED <<store, bind, stack, raw, arg, created, tracker, loaded,
                 m2mEvents, changeDict, queue>>

\* A HandledValidation that is caught only after the changes recorded so far
\* have been pushed.
RaiseValidationPublishing ==
  /\ InBody
  /\ actPc' = "validated"
  /\ payload' = [kind |-> "validation", body |-> NoneValue]
  /\ queue' = <<[users |-> "all", message |-> changeDict]>> \o queue
  /\ UNCHANGED <<ctxVars, rows, txRows, txOpen, objs, created, result, tracker,
                 loaded, m2mEvents, changeDict, directResult>>

\* the business action raises HandledValidation, which action() catches
RaiseValidation ==
  /\ InBody
  /\ actPc' = "validated"
  /\ payload' = [kind |-> "validation", body |-> NoneValue]
  /\ UNCHANGED directResult
  /\ UNCHANGED <<ctxVars, rows, txRows, txOpen, objs, created, result, tracker,
                 loaded, m2mEvents, changeDict, queue>>

\* What the business action can return: nothing, or an object it holds.
DirectResults ==
  {NoneValue} \cup {Entity("Folder", i) : i \in {j \in Ids : objs[j].st \in {"pending", "persistent"}}}

\* the business action returns v
ActionReturns(v) ==
  /\ InBody
  /\ actPc' = "flush"
  /\ directResult' = v
  /\ UNCHANGED payload
  /\ UNCHANGED <<ctxVars, rows, txRows, txOpen, objs, created, result, tracker,
                 loaded, m2mEvents, changeDict, queue>>

----------------------------------------------------------------------------
(* ResourceManager.action *)

\* async with self.context(token): __aenter__ up to the GET
ActCall ==
  /\ actPc = "call"
  /\ ConnectGet(ActTask, ActToken)
  /\ actPc' = "entering"
  /\ UNCHANGED <<rows, txRows, txOpen, objs, created, result, tracker, loaded,
                 m2mEvents, changeDict, queue>>

\* The scope entry also binds an empty change-set as request.result.
BindChangeSet == result' = EmptyResultData

\* __aenter__ resumes and the body starts
ActEntered ==
  /\ actPc = "entering"
  /\ ConnectResume(ActTask)
  /\ BindChangeSet
  /\ actPc' = IF pc'[ActTask] = "idle" THEN "body" ELSE "done"
  /\ UNCHANGED <<rows, txRows, txOpen, objs, created, tracker, loaded,
                 m2mEvents, changeDict, queue>>

\* await db.flush()
ActFlush ==
  /\ actPc = "flush"
  /\ Flush("reduce", FALSE)
  /\ UNCHANGED <<store, scopes, bind, stack, raw, arg, created, tracker,
                 loaded, m2mEvents, changeDict, queue>>

\* ResourceManager.changes: the dict built from request.result, the
\* ResultData afterwards, and the exception raised ("none": it returns).
Changes(res, ld) ==
  LET withSnap == {i \in res.update : Previous(ld.items, i).id # 0}
      newSet == res.new \cup (res.update \ withSnap)
      diffOf(i) == dict_diff(Previous(ld.items, i), Serialize(i, objs[i].vals))
      chunk == {[id |-> i, fields |-> {<<f, objs[i].vals[f]>> : f \in diffOf(i)}] :
                  i \in {j \in withSnap : diffOf(j) # {}}}
      keys == (IF res.update # {} THEN {"update"} ELSE {})
              \cup (IF newSet # {} THEN {"new"} ELSE {})
              \cup (IF Len(res.m2m) > 0 THEN {"m2m"} ELSE {})
  IN IF res.update # {} /\ ~ld.bound
       THEN [type |-> "AttributeError", result |-> res, dict |-> NotMade]
     ELSE IF res.delete # {}
       THEN [type |-> "AttributeError", result |-> [res EXCEPT !.new = newSet],
             dict |-> NotMade]
     ELSE [type |-> "none",
           result |-> [res EXCEPT !.new = newSet],
           dict |-> [made |-> TRUE, keys |-> keys, update |-> chunk,
                     new |-> {Serialize(i, objs[i].vals) : i \in newSet},
                     m2m |-> res.m2m]]

\* self.changes[bucket] in the properties of the interceptor: the ids it
\* yields and the exception raised.  self.changes is request.tracker.
ChangesItem(bucket) ==
  IF ~tracker.bound THEN [type |-> "AttributeError", ids |-> {}]
  ELSE IF SubscriptResultData # "none" THEN [type |-> SubscriptResultData, ids |-> {}]
  ELSE [type |-> "none", ids |-> tracker.data[bucket]]

\* ChangeInterceptor.new: the serialized entities of changes['new']
InterceptorNew ==
  LET c == ChangesItem("new")
  IN [type |-> c.type, items |-> {Serialize(i, objs[i].vals) : i \in c.ids}]

\* ChangeInterceptor.updated: request.loaded is read first, then
\* changes['updated']; one diff per entity that has a snapshot and differs
\* from it.
InterceptorUpdated ==
  LET c == ChangesItem("update")
      withSnap == {i \in c.ids : Previous(loaded.items, i).id # 0}
      diffOf(i) == dict_diff(Previous(loaded.items, i), Serialize(i, objs[i].vals))
  IN IF ~loaded.bound THEN [type |-> "AttributeError", items |-> {}]
     ELSE [type |-> c.type,
           items |-> {[id |-> i, fields |-> {<<f, objs[i].vals[f]>> : f \in diffOf(i)}] :
                        i \in {j \in withSnap : diffOf(j) # {}}}]

\* ChangeInterceptor.deleted: the ids of changes['deleted']
InterceptorDeleted ==
  LET c == ChangesItem("delete")
  IN [type |-> c.type, items |-> c.ids]

\* Messanger.propagate(message): whether it returns the rt_send coroutine.
PropagateSends(message) == message.keys # {}

\* change_dict = self.changes; propagation = self.messanger.propagate(change_dict)
ActReduce ==
  /\ actPc = "reduce"
  /\ LET c == Changes(result, loaded) IN
     /\ result' = c.result
     /\ IF c.type # "none"
          THEN /\ Raise("changes", c.type)
               /\ UNCHANGED changeDict
          ELSE /\ changeDict' = c.dict
               /\ actPc' = IF PropagateSends(c.dict) THEN "push" ELSE "return"
               /\ UNCHANGED <<pc, exc>>
  /\ UNCHANGED <<store, scopes, bind, stack, raw, arg, rows, txRows, txOpen,
                 objs, created, tracker, loaded, m2mEvents, queue>>

\* A push that sends the new entities and the updates as two messages.
ActPushSplit ==
  /\ actPc = "push"
  /\ queue' = <<[users |-> "all", message |-> [changeDict EXCEPT !.update = {}]],
                [users |-> "all", message |-> [changeDict EXCEPT !.new = {}]]>> \o queue
  /\ actPc' = "return"
  /\ UNCHANGED <<ctxVars, rows, txRows, txOpen, objs, created, result, tracker,
                 loaded, m2mEvents, changeDict>>

\* Messanger.rt_send(jdumps(message), 'all'), awaited: the LPUSH.
ActPush ==
  /\ actPc = "push"
  /\ queue' = <<[users |-> "all", message |-> changeDict]>> \o queue
  /\ actPc' = "return"
  /\ UNCHANGED <<ctxVars, rows, txRows, txOpen, objs, created, result, tracker,
                 loaded, m2mEvents, changeDict>>

\* A membership test that looks in the new bucket only.
InBucketsNewOnly(i, res) == i \in res.new

\* `item in request.result.new.union(request.result.update)`
InBuckets(i, res) == i \in (res.new \cup res.update)

\* ResourceManager._deep_serialize(item): the output, or NotSerializable when
\* it raises TypeError.
RECURSIVE DeepSerialize(_, _)
DeepSerialize(item, res) ==
  LET kids == [n \in 1..Len(item.items) |-> DeepSerialize(item.items[n], res)]
      failed == \E n \in 1..Len(item.items) : kids[n].k = "TypeError"
  IN CASE item.k = "dict" ->
            IF failed THEN NotSerializable ELSE Container("dict", kids)
       [] item.k \in {"list", "tuple", "set"} ->
            IF failed THEN NotSerializable ELSE Container("list", kids)
       [] item.k = "entity" ->
            IF item.type \notin Registered THEN NotSerializable
            ELSE IF InBuckets(item.id, res)
              THEN Value("ref", item.type, item.id, NoRow, << >>)
              ELSE Value("full", item.type, item.id, objs[item.id].vals, << >>)
       [] OTHER -> item

\* `if result:` in serialize_results
Truthy(v) ==
  CASE v.k = "none" -> FALSE
    [] v.k \in {"dict", "list", "tuple", "set"} -> Len(v.items) > 0
    [] OTHER -> TRUE

\* ResourceManager.serialize_results(change_dict, result): ret['payload'], when
\* there is one (kind "TypeError": the call raises).
serialize_results(cd, direct, res) ==
  IF ~Truthy(direct) THEN [kind |-> "changes", body |-> NoneValue]
  ELSE LET d == DeepSerialize(direct, res)
       IN IF d.k = "TypeError" THEN [kind |-> "TypeError", body |-> NoneValue]
          ELSE [kind |-> "changes", body |-> d]

\* return self.serialize_results(change_dict, result)
ActReturn ==
  /\ actPc = "return"
  /\ LET p == serialize_results(changeDict, directResult, result) IN
     IF p.kind = "TypeError"
       THEN /\ Raise("serialize", "TypeError")
            /\ UNCHANGED payload
       ELSE /\ payload' = p
            /\ actPc' = "returned"
            /\ UNCHANGED <<pc, exc>>
  /\ UNCHANGED <<store, scopes, bind, stack, raw, arg, rows, txRows, txOpen,
                 objs, created, result, tracker, loaded, m2mEvents, changeDict,
                 queue, directResult>>

\* What __aexit__ of the scope does to the handle's transaction: db.commit()
\* and db.rollback() run only when disconnect() has returned, after the
\* flushes of action().
EndTransaction ==
  LET h == bind[ActTask].db
      committed == scopes'[h].commits > scopes[h].commits
      rolledBack == scopes'[h].rollbacks > scopes[h].rollbacks
  IN /\ rows' = IF committed THEN txRows ELSE rows
     /\ txRows' = IF rolledBack THEN rows ELSE txRows
     /\ txOpen' = IF committed \/ rolledBack THEN FALSE ELSE txOpen

\* the body of the `async with` is left by a return: __aexit__(None, None, None)
ActExitNormal ==
  /\ actPc \in {"returned", "validated"}
  /\ ExitNormal(ActTask)
  /\ EndTransaction
  /\ actPc' = "done"
  /\ UNCHANGED <<objs, created, result, tracker, loaded, m2mEvents, changeDict,
                 queue>>

\* the body of the `async with` is left by an exception
ActExitRaised ==
  /\ actPc = "raised"
  /\ ExitRaised(ActTask)
  /\ EndTransaction
  /\ actPc' = "done"
  /\ UNCHANGED <<objs, created, result, tracker, loaded, m2mEvents, changeDict,
                 queue>>

NextAct ==
  \/ ActCall /\ UNCHANGED <<respVars, forkVars, loginVars, wsVars, gwVars, assocVars>>
  \/ ActEntered /\ UNCHANGED <<respVars, forkVars, loginVars, wsVars, gwVars, assocVars>>
  \/ StartRecord /\ UNCHANGED <<respVars, forkVars, loginVars, wsVars, gwVars, assocVars>>
  \/ \E i \in Ids, vals \in Rows : Create(i, vals) /\ UNCHANGED <<respVars, forkVars, loginVars, wsVars, gwVars, assocVars>>
  \/ \E i \in Ids : Load(i) /\ UNCHANGED <<respVars, forkVars, loginVars, wsVars, gwVars, assocVars>>
  \/ \E i \in Ids, f \in Fields, v \in Vals : Modify(i, f, v) /\ UNCHANGED <<respVars, forkVars, loginVars, wsVars, gwVars, assocVars>>
  \/ \E i \in Ids : Delete(i) /\ UNCHANGED <<respVars, forkVars, loginVars, wsVars, gwVars, assocVars>>
  \/ \E op \in {"add", "del"}, o \in Ids :
       \E r \in Ids \ {o} : M2MEvent(op, o, r) /\ UNCHANGED <<respVars, forkVars, loginVars, wsVars, gwVars, assocVars>>
  \/ BodyFlush /\ UNCHANGED <<respVars, forkVars, loginVars, wsVars, gwVars, assocVars>>
  \/ BodyCommit /\ UNCHANGED <<respVars, forkVars, loginVars, wsVars, gwVars, assocVars>>
  \/ RaiseValidation /\ UNCHANGED <<forkVars, loginVars, wsVars, gwVars, assocVars>>
  \/ \E v \in DirectResults : ActionReturns(v) /\ UNCHANGED <<forkVars, loginVars, wsVars, gwVars, assocVars>>
  \/ ActFlush /\ UNCHANGED <<respVars, forkVars, loginVars, wsVars, gwVars, assocVars>>
  \/ ActReduce /\ UNCHANGED <<respVars, forkVars, loginVars, wsVars, gwVars, assocVars>>
  \/ ActPush /\ UNCHANGED <<respVars, forkVars, loginVars, wsVars, gwVars, assocVars>>
  \/ ActReturn /\ UNCHANGED <<forkVars, loginVars, wsVars, gwVars, assocVars>>
  \/ ActExitNormal /\ UNCHANGED <<respVars, forkVars, loginVars, wsVars, gwVars, assocVars>>
  \/ ActExitRaised /\ UNCHANGED <<respVars, forkVars, loginVars, wsVars, gwVars, assocVars>>

SpecAct == Init /\ [][NextAct]_vars

----------------------------------------------------------------------------
(* A verb that loads an entity more than once (SpecReload) *)

\* db.expunge(obj) of an object without unflushed changes: the handle no
\* longer holds an object for the row, so the next db.get builds one from
\* the row and runs the load event again.
Expunge(i) ==
  /\ InBody
  /\ objs[i].st = "persistent" /\ ~objs[i].mod
  /\ Len(loaded.items) < MaxLoads
  /\ objs' = [objs EXCEPT ![i] = NoObj]
  /\ UNCHANGED <<ctxVars, rows, txRows, txOpen, created, result, tracker, loaded,
                 m2mEvents, changeDict, queue, actPc>>

NextReload ==
  \/ ActCall /\ UNCHANGED <<respVars, forkVars, loginVars, wsVars, gwVars, assocVars>>
  \/ ActEntered /\ UNCHANGED <<respVars, forkVars, loginVars, wsVars, gwVars, assocVars>>
  \/ StartRecord /\ UNCHANGED <<respVars, forkVars, loginVars, wsVars, gwVars, assocVars>>
  \/ \E i \in Ids : Load(i) /\ UNCHANGED <<respVars, forkVars, loginVars, wsVars, gwVars, assocVars>>
  \/ \E i \in Ids, f \in Fields, v \in Vals :
       Modify(i, f, v) /\ UNCHANGED <<respVars, forkVars, loginVars, wsVars, gwVars, assocVars>>
  \/ \E i \in Ids : Expunge(i) /\ UNCHANGED <<respVars, forkVars, loginVars, wsVars, gwVars, assocVars>>
  \/ BodyFlush /\ UNCHANGED <<respVars, forkVars, loginVars, wsVars, gwVars, assocVars>>
  \/ \E v \in DirectResults : ActionReturns(v) /\ UNCHANGED <<forkVars, loginVars, wsVars, gwVars, assocVars>>
  \/ ActFlush /\ UNCHANGED <<respVars, forkVars, loginVars, wsVars, gwVars, assocVars>>
  \/ ActReduce /\ UNCHANGED <<respVars, forkVars, loginVars, wsVars, gwVars, assocVars>>

SpecReload == Init /\ [][NextReload]_vars

----------------------------------------------------------------------------
(* serialize_results on its own (SpecSer): the direct result is any value    *)
(* nested up to MaxNest deep, the buckets any sets of the mapped entities.   *)

Leaves ==
  {Scalar} \cup {Entity("Folder", i) : i \in Ids} \cup {Entity("Other", 1)}

RECURSIVE Nested(_)
Nested(d) ==
  IF d = 0 THEN Leaves
  ELSE LET prev == Nested(d - 1)
       IN prev
          \cup {Container(k, <<x>>) : k \in {"dict", "list", "tuple", "set"}, x \in prev}
          \cup {Container("list", <<x, y>>) : x \in Leaves, y \in Leaves}

InitSer ==
  /\ InitCtx
  /\ rows = [i \in Ids |-> [f \in Fields |-> 0]]
  /\ txRows = rows
  /\ txOpen = TRUE
  /\ objs = [i \in Ids |-> [st |-> "persistent", vals |-> rows[i], mod |-> FALSE]]
  /\ created = {}
  /\ result \in {[new |-> n, update |-> u, delete |-> {}, m2m |-> << >>] :
                   n \in SUBSET Ids, u \in SUBSET Ids}
  /\ tracker = [bound |-> FALSE, data |-> EmptyResultData]
  /\ loaded = [bound |-> FALSE, items |-> << >>]
  /\ m2mEvents = << >>
  /\ changeDict = NotMade
  /\ queue = << >>
  /\ actPc = "return"
  /\ directResult \in Nested(MaxNest)
  /\ payload = NoPayload
  /\ InitFork
  /\ InitLogin
  /\ InitWs
  /\ InitGw
  /\ InitAssoc

NextSer == ActReturn /\ UNCHANGED <<forkVars, loginVars, wsVars, gwVars, assocVars>>

SpecSer == InitSer /\ [][NextSer]_vars

----------------------------------------------------------------------------
(* Tasks that open and close scopes (Part 1) *)

NextCtx ==
  \E t \in Tasks :
    \/ \E tok \in Tokens : ConnectGet(t, tok) /\ UNCHANGED <<actVars, respVars, forkVars, loginVars, wsVars, gwVars, assocVars>>
    \/ ConnectResume(t) /\ UNCHANGED <<actVars, respVars, forkVars, loginVars, wsVars, gwVars, assocVars>>
    \/ \E u \in Tokens : NewKeys(t, u) /\ UNCHANGED <<actVars, respVars, forkVars, loginVars, wsVars, gwVars, assocVars>>
    \/ NewSet(t) /\ UNCHANGED <<actVars, respVars, forkVars, loginVars, wsVars, gwVars, assocVars>>
    \/ WriteMarker(t) /\ UNCHANGED <<actVars, respVars, forkVars, loginVars, wsVars, gwVars, assocVars>>
    \/ \E k \in Keys : SessionSet(t, k) /\ UNCHANGED <<actVars, respVars, forkVars, loginVars, wsVars, gwVars, assocVars>>
    \/ BodyRaise(t) /\ UNCHANGED <<actVars, respVars, forkVars, loginVars, wsVars, gwVars, assocVars>>
    \/ ExitNormal(t) /\ UNCHANGED <<actVars, respVars, forkVars, loginVars, wsVars, gwVars, assocVars>>
    \/ ExitRaised(t) /\ UNCHANGED <<actVars, respVars, forkVars, loginVars, wsVars, gwVars, assocVars>>
    \/ ExitCaught(t) /\ UNCHANGED <<actVars, respVars, forkVars, loginVars, wsVars, gwVars, assocVars>>

SpecCtx == Init /\ [][NextCtx]_vars

----------------------------------------------------------------------------
(* A ContextProxy used by a task and the tasks it spawns (SpecFork) *)

\* prop.update(obj) in task t, with a dict made for the occasion
ProxyUpdate(t) ==
  /\ t \in started
  /\ Len(heap) < MaxObjects
  /\ heap' = Append(heap, [bar |-> {}])
  /\ proxyBind' = [proxyBind EXCEPT ![t] = Len(heap) + 1]
  /\ UNCHANGED started

\* asyncio.create_task in task p: the new task c runs in a copy of the
\* context of p, which holds the same objects.
Spawn(p, c) ==
  /\ p \in started /\ c \notin started
  /\ started' = started \cup {c}
  /\ proxyBind' = [proxyBind EXCEPT ![c] = proxyBind[p]]
  /\ UNCHANGED heap

\* prop['bar'] = ... in task t: __setitem__ on the object the task has bound
ProxySetItem(t) ==
  /\ t \in started /\ proxyBind[t] # 0
  /\ heap' = [heap EXCEPT ![proxyBind[t]].bar = @ \cup {t}]
  /\ UNCHANGED <<started, proxyBind>>

NextFork ==
  \/ \E t \in ForkTasks : ProxyUpdate(t) /\ UNCHANGED <<ctxVars, actVars, respVars, loginVars, wsVars, gwVars, assocVars>>
  \/ \E p \in ForkTasks, c \in ForkTasks :
       Spawn(p, c) /\ UNCHANGED <<ctxVars, actVars, respVars, loginVars, wsVars, gwVars, assocVars>>
  \/ \E t \in ForkTasks : ProxySetItem(t) /\ UNCHANGED <<ctxVars, actVars, respVars, loginVars, wsVars, gwVars, assocVars>>

SpecFork == Init /\ [][NextFork]_vars

----------------------------------------------------------------------------
(* ResourceManager.login (SpecLogin) *)

\* user = await self.auth_man.login(username, password): u is the user found,
\* 0 when the credentials are refused, and then login returns None.
LoginAuth(t, u) ==
  /\ login[t].st = "idle"
  /\ login' = [login EXCEPT ![t] = [st |-> IF u = 0 THEN "none" ELSE "auth", user |-> u]]
  /\ UNCHANGED <<ctxVars, logout>>

\* await self.context.web_session_man.new(), up to the KEYS
LoginNew(t, u) ==
  /\ login[t].st = "auth"
  /\ NewKeys(t, u)
  /\ UNCHANGED loginVars

\* new() resumes with the SET and returns; `token, _ = ...` unpacks the
\* RedisSession.  The statements after it open the scope and set
\* session.user_id.
LoginUnpack(t) ==
  /\ login[t].st = "auth" /\ pc[t] = "new_set"
  /\ store' = [store EXCEPT ![arg[t]] = Pickled(EmptyContent)]
  /\ arg' = [arg EXCEPT ![t] = "none"]
  /\ IF UnpackNew(EmptyContent) = "ok"
       THEN /\ login' = [login EXCEPT ![t].st = "scope"]
            /\ pc' = [pc EXCEPT ![t] = "idle"]
            /\ UNCHANGED <<exc, bind>>
       ELSE /\ login' = [login EXCEPT ![t].st = "raised"]
            /\ exc' = [exc EXCEPT ![t] = [op |-> "login", type |-> UnpackNew(EmptyContent)]]
            /\ pc' = [pc EXCEPT ![t] = "dead"]
            /\ bind' = BindAfter(t, stack[t], "dead")
  /\ UNCHANGED <<scopes, stack, raw, logout>>

\* self.context.destroy(token): the ContextManager has no attribute
\* `destroy` (only its RedisSessionManager has), so the expression raises
\* before anything is deleted.  The result names the exception raised and
\* the store afterwards.
ContextDestroy(st, tok) == [type |-> "AttributeError", store |-> st]

\* logout(token) by task t: 'Ok' when destroy returned, 'Session not found'
\* when it raised.
Logout(t, tok) ==
  /\ pc[t] = "idle" /\ login[t].st = "idle"
  /\ logout[tok] = ""
  /\ store' = ContextDestroy(store, tok).store
  /\ logout' = [logout EXCEPT ![tok] = IF ContextDestroy(store, tok).type = "none"
                                         THEN "Ok" ELSE "Session not found"]
  /\ UNCHANGED <<scopes, bind, stack, pc, raw, arg, exc, login>>

\* a scope is opened with a token: context(tok).__aenter__
LoginConnect(t, tok) ==
  /\ login[t].st = "idle"
  /\ ConnectGet(t, tok)
  /\ UNCHANGED loginVars

LoginConnected(t) ==
  /\ login[t].st = "idle"
  /\ ConnectResume(t)
  /\ UNCHANGED loginVars

NextLogin ==
  \E t \in Tasks :
    \/ \E u \in UserIds \cup {0} :
         LoginAuth(t, u) /\ UNCHANGED <<actVars, respVars, forkVars, wsVars, gwVars, assocVars>>
    \/ \E u \in Tokens : LoginNew(t, u) /\ UNCHANGED <<actVars, respVars, forkVars, wsVars, gwVars, assocVars>>
    \/ LoginUnpack(t) /\ UNCHANGED <<actVars, respVars, forkVars, wsVars, gwVars, assocVars>>
    \/ \E tok \in Tokens : Logout(t, tok) /\ UNCHANGED <<actVars, respVars, forkVars, wsVars, gwVars, assocVars>>
    \/ \E tok \in Tokens : LoginConnect(t, tok) /\ UNCHANGED <<actVars, respVars, forkVars, wsVars, gwVars, assocVars>>
    \/ LoginConnected(t) /\ UNCHANGED <<actVars, respVars, forkVars, wsVars, gwVars, assocVars>>

SpecLogin == Init /\ [][NextLogin]_vars

----------------------------------------------------------------------------
(* WSServer: the gateway's registries of connections (SpecWs) *)

\* The dicts a session record can unpickle to: user_id 0 and has_groups FALSE
\* stand for a missing key; group_ids is a list of group ids.
WsSessions ==
  {[has |-> TRUE, user_id |-> u, has_groups |-> hg, group_ids |-> g] :
     u \in WsUserIds \cup {0}, hg \in BOOLEAN, g \in SUBSET GroupIds}
  \ {x \in [has : {TRUE}, user_id : WsUserIds \cup {0}, has_groups : {FALSE},
            group_ids : SUBSET GroupIds] : x.group_ids # {}}

\* self.users.pop(session['user_id'], None)
UsersPop(users, key) == [u \in WsUserIds |-> IF u = key THEN 0 ELSE users[u]]

\* self.groups.pop(session['group_ids'], None): the key is a list, which is
\* not hashable, so the call raises and removes nothing.
GroupsPop(groups, key) == [type |-> "TypeError", groups |-> groups]

\* What the `finally` of message_handler (and connection_close before it)
\* leaves in the registries for the handler's local session.
Teardown(sess) ==
  LET u1 == IF sess.has /\ sess.user_id # 0 THEN UsersPop(wsUsers, sess.user_id)
            ELSE wsUsers
      g1 == IF sess.has /\ sess.has_groups THEN GroupsPop(wsGroups, sess.group_ids).groups
            ELSE wsGroups
  IN [users |-> u1, groups |-> g1]

\* The handler of connection c returns or raises: the connection ends.
WsEnd(c, sess, how) ==
  /\ wsUsers' = Teardown(sess).users
  /\ wsGroups' = Teardown(sess).groups
  /\ wsConn' = [wsConn EXCEPT ![c].st = "closed", ![c].session = sess,
                              ![c].ended = how]

\* a message without ':' : connection_close(session, 403, ...), then finally
WsBadMessage(c) ==
  /\ wsConn[c].st = "open"
  /\ WsEnd(c, wsConn[c].session, "protocol")

\* recv() raises ConnectionClosedOK or ConnectionClosedError
WsDisconnect(c) ==
  /\ wsConn[c].st = "open"
  /\ WsEnd(c, wsConn[c].session, "disconnected")

\* 'TOKEN:<token>' for a token without record, or with one that does not
\* unpickle: the handler ends with the session it had.
WsTokenRejected(c) ==
  /\ wsConn[c].st = "open"
  /\ WsEnd(c, wsConn[c].session, "no session")

\* 'TOKEN:<token>' for a token whose record unpickles to sess
WsToken(c, sess) ==
  /\ wsConn[c].st = "open" /\ wsConn[c].msgs < MaxMessages
  /\ IF sess.user_id = 0
       THEN WsEnd(c, sess, "no user")
       ELSE /\ wsUsers' = [wsUsers EXCEPT ![sess.user_id] = c]
            /\ wsGroups' = [g \in GroupIds |->
                              IF sess.has_groups /\ g \in sess.group_ids
                                THEN Append(wsGroups[g], c) ELSE wsGroups[g]]
            /\ wsConn' = [wsConn EXCEPT ![c].session = sess, ![c].msgs = @ + 1]

NextWs ==
  \E c \in Conns :
    \/ WsBadMessage(c) /\ UNCHANGED <<ctxVars, actVars, respVars, forkVars, loginVars, gwVars, assocVars>>
    \/ WsDisconnect(c) /\ UNCHANGED <<ctxVars, actVars, respVars, forkVars, loginVars, gwVars, assocVars>>
    \/ WsTokenRejected(c) /\ UNCHANGED <<ctxVars, actVars, respVars, forkVars, loginVars, gwVars, assocVars>>
    \/ \E sess \in WsSessions :
         WsToken(c, sess) /\ UNCHANGED <<ctxVars, actVars, respVars, forkVars, loginVars, gwVars, assocVars>>

SpecWs == Init /\ [][NextWs]_vars

----------------------------------------------------------------------------
(* WSServer.start and the queue (SpecGw) *)

\* Messanger.rt_send: LPUSH of one message
GwPush(m) ==
  /\ Len(gwQueue) < MaxQueue
  /\ gwQueue' = <<m>> \o gwQueue
  /\ UNCHANGED gwStart

\* What asyncio.run(asyncio.gather(...)) raises: gather() is evaluated
\* outside any event loop and asyncio.run() is handed a future where it
\* takes a coroutine.  Which of the two calls raises depends on the
\* interpreter.
StartRaises == {"ValueError", "RuntimeError"}

\* WSServer.start() raises e: neither the server nor a read_redis loop is
\* ever run.
GwStart(e) ==
  /\ gwStart = "no"
  /\ gwStart' = e
  /\ UNCHANGED gwQueue

NextGw ==
  \/ \E m \in Messages :
       GwPush(m) /\ UNCHANGED <<ctxVars, actVars, respVars, forkVars, loginVars, wsVars, assocVars>>
  \/ \E e \in StartRaises :
       GwStart(e) /\ UNCHANGED <<ctxVars, actVars, respVars, forkVars, loginVars, wsVars, assocVars>>

SpecGw == Init /\ [][NextGw]_vars

----------------------------------------------------------------------------
(* M2MResource.add on one handle (SpecAssoc) *)

\* get_associations(keys): the pairs of keys the handle finds in the table
get_associations(keys) == keys \cap assocTx.pairs

\* get_existings(keys): the pairs whose two endpoints have a row
get_existings(keys) ==
  {p \in keys : p[1] \in ExistingLocals /\ p[2] \in ExistingRemotes}

\* db.execute(loc.table.insert(), values) raises IntegrityError when the
\* database enforces the foreign keys and a pair refers to a missing row.
InsertRaises(values) == assocFk /\ values # get_existings(values)

\* The application is configured with a database that enforces foreign
\* keys, before the handle is used.
AssocEnforce ==
  /\ ~assocFk
  /\ assocCall.n = 0 /\ assocTx = [pairs |-> {}, other |-> FALSE] /\ assocRows = {}
  /\ assocFk' = TRUE
  /\ UNCHANGED <<assocRows, assocTx, assocCall>>

\* An earlier statement of the scope leaves an uncommitted change.
AssocOtherWrite ==
  /\ ~assocTx.other
  /\ assocTx' = [assocTx EXCEPT !.other = TRUE]
  /\ UNCHANGED <<assocFk, assocRows, assocCall>>

\* M2MResource.add(keys)
M2MResourceAdd(keys) ==
  LET to_work == keys \ get_associations(keys)
      retry == get_existings(to_work)
  IN /\ IF to_work = {}
          THEN /\ assocCall' = [n |-> 1 - assocCall.n, keys |-> keys, ret |-> {}]
               /\ UNCHANGED assocTx
        ELSE IF InsertRaises(to_work)
          THEN \* await db.rollback(), then the insert of the pairs that exist
               /\ assocTx' = [pairs |-> assocRows \cup retry, other |-> FALSE]
               /\ assocCall' = [n |-> 1 - assocCall.n, keys |-> keys, ret |-> retry]
        ELSE /\ assocTx' = [assocTx EXCEPT !.pairs = @ \cup to_work]
             /\ assocCall' = [n |-> 1 - assocCall.n, keys |-> keys, ret |-> to_work]
     /\ UNCHANGED <<assocFk, assocRows>>

\* the scope's commit
AssocCommit ==
  /\ assocTx # [pairs |-> assocRows, other |-> FALSE]
  /\ assocRows' = assocTx.pairs
  /\ assocTx' = [assocTx EXCEPT !.other = FALSE]
  /\ UNCHANGED <<assocFk, assocCall>>

NextAssoc ==
  \/ AssocEnforce /\ UNCHANGED <<ctxVars, actVars, respVars, forkVars, loginVars, wsVars, gwVars>>
  \/ AssocOtherWrite /\ UNCHANGED <<ctxVars, actVars, respVars, forkVars, loginVars, wsVars, gwVars>>
  \/ \E keys \in SUBSET Pairs \ {{}} :
       M2MResourceAdd(keys) /\ UNCHANGED <<ctxVars, actVars, respVars, forkVars, loginVars, wsVars, gwVars>>
  \/ AssocCommit /\ UNCHANGED <<ctxVars, actVars, respVars, forkVars, loginVars, wsVars, gwVars>>

SpecAssoc == Init /\ [][NextAssoc]_vars

----------------------------------------------------------------------------
(* Properties of the context manager (SpecCtx) *)

C8_ReusesSession ==
  \A t \in Tasks :
    (pc[t] = "idle" /\ Len(stack[t]) >= 2
       /\ scopes[stack[t][1]].token = scopes[Top(t)].token)
      => bind[t].session = stack[t][1]

\* C9: an entry that fails in connect() reports SessionNotFound.
C9_ReportsSessionNotFound ==
  \A t \in Tasks : exc[t].op = "connect" => exc[t].type = "SessionNotFound"

\* C10: a scope whose body completed without raising has saved its session,
\* committed its handle exactly once and never rolled it back.
C10_GracefulExit ==
  \A id \in 1..Len(scopes) :
    scopes[id].exited = "normal"
      => scopes[id].saved /\ scopes[id].commits = 1 /\ scopes[id].rollbacks = 0

\* C11: a scope whose body raised has saved its session, rolled its handle
\* back and never committed it.
C11_FailureExit ==
  \A id \in 1..Len(scopes) :
    scopes[id].exited = "raised"
      => scopes[id].saved /\ scopes[id].rollbacks > 0 /\ scopes[id].commits = 0

\* C12: once __aexit__ of a scope has run, on whatever path the body was
\* left, the scope's handle has been committed or rolled back.
C12_ExitEndsTransaction ==
  \A id \in 1..Len(scopes) :
    scopes[id].exited # "no" => scopes[id].commits + scopes[id].rollbacks > 0

\* C19: the SET that ends new() writes only under a token that holds no
\* record, so no record is overwritten and no token is handed out twice.
C19_NewNeverOverwrites ==
  [][\A t \in Tasks :
       (pc[t] = "new_set" /\ pc'[t] # "new_set") => store[arg[t]].kind = "missing"]_vars

\* C21: a task that runs outside any scope has nothing bound to the session,
\* request and db proxies, so that every access through them raises.
C21_UnboundOutsideScope ==
  \A t \in Tasks : (pc[t] = "idle" /\ ~InScope(t)) => bind[t] = Unbound

\* C22: a value a scope wrote into its session is in the store under the
\* scope's token once the scope has exited, for a later scope to load.
C22_WrittenValueStored ==
  \A id \in 1..Len(scopes) : \A k \in Keys :
    (scopes[id].exited # "no" /\ scopes[id].content[k] = id)
      => store[scopes[id].token].data[k] # 0

\* C23: a scope a task opens after an earlier scope of it with the same token
\* has exited starts with an empty request scratch space and with the session
\* values the earlier scope wrote.
C23_FreshRequestKeptSession ==
  \A a \in 1..Len(scopes) : \A b \in 1..Len(scopes) :
    (a < b /\ scopes[a].task = scopes[b].task /\ scopes[a].token = scopes[b].token
       /\ scopes[a].exited # "no" /\ scopes[b].exited = "no")
      => /\ scopes[b].marker \in {0, b}
         /\ \A k \in Keys : scopes[a].content[k] = a => scopes[b].content[k] # 0

\* C31: a task that runs inside a scope has the db proxy bound to the handle
\* made at the entry of its innermost open scope.
C31_OwnHandle ==
  \A t \in Tasks : (pc[t] = "idle" /\ InScope(t)) => bind[t].db = Top(t)

\* C32: once two scopes opened with the same token have both exited, the
\* stored record is the whole session content of one of them.
C32_LastWriterWins ==
  \A a \in 1..Len(scopes) : \A b \in 1..Len(scopes) :
    (a < b /\ scopes[a].token = scopes[b].token
       /\ scopes[a].exited # "no" /\ scopes[b].exited # "no")
      => store[scopes[a].token].data \in {scopes[a].content, scopes[b].content}

----------------------------------------------------------------------------
(* Properties of ResourceManager.action (SpecAct) *)

\* C2: a message is in the queue only once the scope has exited gracefully
\* and its transaction is closed by a commit.
C2_PublishAfterCommit ==
  Len(queue) > 0
    => (scopes[bind[ActTask].db].exited = "normal"
          /\ scopes[bind[ActTask].db].commits > 0 /\ ~txOpen)

\* C3: once an entity created in the scope is committed, it is a member of
\* the interceptor's changes 'new'.
C3_CommittedInChangesNew ==
  \A i \in created : rows[i] # NoRow => (tracker.bound /\ i \in tracker.data.new)

\* C4: once the change-set is reduced, an updated entity that has a load-time
\* snapshot has a diff record exactly when a flushed column value differs
\* from the snapshot, and the record then holds exactly the differing columns
\* with their flushed values; a column set back to its snapshot value is not
\* in it.
C4_DiffRecordExact ==
  (changeDict.made /\ actPc # "done") =>
    \A i \in {j \in result.update : Previous(loaded.items, j).id # 0} :
      LET snap == Previous(loaded.items, i)
          changed == {f \in Fields : txRows[i][f] # snap.vals[f]}
          recs == {r \in changeDict.update : r.id = i}
      IN IF changed = {} THEN recs = {}
         ELSE recs = {[id |-> i, fields |-> {<<f, txRows[i][f]>> : f \in changed}]}

\* C4: a reduced change-set holds a diff record with one of the two columns:
\* the entity was loaded and flushed with one column changed and the other
\* at its snapshot value.
C4_OneColumnRecord ==
  /\ changeDict.made
  /\ \E r \in changeDict.update : Cardinality(r.fields) = 1

\* C5: every message in the queue carries at least one new entity, diff
\* record, deletion or relation delta.
C5_NoPushForEmpty ==
  \A n \in 1..Len(queue) :
    LET m == queue[n].message IN
    m.new # {} \/ m.update # {} \/ Len(m.m2m) > 0

\* C6: a call that creates nothing and leaves every row as it was at start
\* (entities loaded, columns assigned the values they had) pushes nothing.
C6_NoOpUpdateNotPublished ==
  (created = {} /\ txRows = InitRows /\ result.update # {}) => Len(queue) = 0

\* C7: every append or remove event on a many-to-many collection has its
\* entry in the scope's relation-delta list, in event order.
C7_EveryEventRecorded ==
  /\ Len(result.m2m) = Len(m2mEvents)
  /\ \A n \in 1..Len(m2mEvents) : result.m2m[n] = m2mEvents[n]

C14_ValidationRollsBack ==
  (payload.kind = "validation" /\ actPc = "done")
    => (scopes[1].rollbacks > 0 /\ scopes[1].commits = 0)

\* The ids under the forward-reference markers of a serialized value.
RECURSIVE Refs(_)
Refs(v) ==
  IF v.k = "ref" THEN {v.id}
  ELSE UNION {Refs(v.items[n]) : n \in 1..Len(v.items)}

\* C16: every forward-reference marker in the payload of a response names an
\* entity that has a record in the 'new' or 'update' section of the response.
C16_RefsResolve ==
  payload.kind = "changes"
    => \A i \in Refs(payload.body) :
         i \in {r.id : r \in changeDict.new} \cup {r.id : r \in changeDict.update}

\* C17: no entity is at once in the new bucket and in the updated or deleted
\* bucket.
C17_BucketsDisjoint ==
  result.new \cap (result.update \cup result.delete) = {}

\* C18: once a flush has run with an entity marked deleted, the entity is no
\* longer in the new or updated bucket.
C18_DeletedLeavesBuckets ==
  \A i \in Ids :
    ((objs[i].st = "deleted" /\ exc[ActTask].op \in {"flush", "commit"})
       \/ objs[i].st = "gone")
      => i \notin result.new \cup result.update

----------------------------------------------------------------------------
(* Properties of serialize_results (SpecSer) *)

\* An entity of a class without resource, at any depth.
RECURSIVE HasUnregistered(_)
HasUnregistered(v) ==
  \/ v.k = "entity" /\ v.type \notin Registered
  \/ \E n \in 1..Len(v.items) : HasUnregistered(v.items[n])

\* The output matches the input position by position: a marker for an entity
\* of the buckets, the full serialization for another entity, containers kept.
RECURSIVE Conforms(_, _)
Conforms(in, out) ==
  CASE in.k = "entity" ->
         IF in.id \in result.new \cup result.update
           THEN out = Value("ref", in.type, in.id, NoRow, << >>)
           ELSE out = Value("full", in.type, in.id, objs[in.id].vals, << >>)
    [] in.k \in {"dict", "list", "tuple", "set"} ->
         /\ out.k = (IF in.k = "dict" THEN "dict" ELSE "list")
         /\ Len(out.items) = Len(in.items)
         /\ \A n \in 1..Len(in.items) : Conforms(in.items[n], out.items[n])
    [] OTHER -> out = in

----------------------------------------------------------------------------
(* Properties of the ContextProxy across spawned tasks (SpecFork) *)

\* C20: what a task reads through the proxy carries no mutation made by a
\* spawned task other than itself.
C20_OnlyOwnMutations ==
  \A t \in started :
    proxyBind[t] # 0 => \A w \in heap[proxyBind[t]].bar : w # 0 => w = t

\* C25: after start_record, for an entity that was loaded, modified and
\* committed, interceptor.updated yields exactly one diff entry, and
\* interceptor.new and interceptor.deleted yield nothing when nothing was
\* created or deleted.
C25_UpdatedYieldsOneDiff ==
  \A i \in Ids :
    (/\ tracker.bound /\ loaded.bound
     /\ Previous(loaded.items, i).id # 0
     /\ objs[i].st = "persistent" /\ ~objs[i].mod
     /\ rows[i] = objs[i].vals /\ rows[i] # Previous(loaded.items, i).vals
     /\ created = {} /\ SessionDeleted = {})
      => /\ i \in result.update
         /\ InterceptorUpdated.type = "none"
         /\ Cardinality(InterceptorUpdated.items) = 1
         /\ InterceptorNew = [type |-> "none", items |-> {}]
         /\ InterceptorDeleted = [type |-> "none", items |-> {}]

\* C26: after start_record, once the commit of a scope that loaded and
\* deleted an entity has run, the entity is gone from storage and
\* interceptor.deleted lists its id.
C26_DeletedYieldsId ==
  \A i \in Ids :
    (/\ tracker.bound /\ Previous(loaded.items, i).id # 0
     /\ objs[i].st = "deleted"
     /\ actPc = "raised" /\ exc[ActTask].op = "commit")
      => /\ InterceptorDeleted.type = "none"
         /\ i \in InterceptorDeleted.items

C29_ReductionFaultReported ==
  [][(actPc = "raised" /\ exc[ActTask].op = "changes" /\ actPc' = "done")
       => exc'[ActTask] = exc[ActTask]]_vars

C33_SameAsSingleFlush ==
  changeDict.made
    => changeDict = Changes([EmptyResultData EXCEPT !.new = created,
                                                    !.update = result.update \ created,
                                                    !.m2m = result.m2m],
                            loaded).dict

\* C34: once the reduction has run, an entity of the updated bucket without
\* load-time snapshot is in the 'new' section of the change dict in full and
\* has no diff record.
C34_NoSnapshotMovedToNew ==
  \A i \in Ids :
    (/\ i \in result.update /\ Previous(loaded.items, i).id = 0
     /\ \/ actPc \in {"push", "return"}
        \/ actPc = "raised" /\ exc[ActTask].op = "changes")
      => /\ changeDict.made
         /\ Serialize(i, objs[i].vals) \in changeDict.new
         /\ \A r \in changeDict.update : r.id # i

\* C36: a start_record() that makes or empties the snapshot cache leaves the
\* buckets that flush writes and reduction reads empty.
C36_StartRecordClears ==
  [][(loaded' # loaded /\ loaded'.bound /\ loaded'.items = << >>)
       => result' = EmptyResultData]_vars

----------------------------------------------------------------------------
(* Properties of a verb that loads an entity more than once (SpecReload) *)

\* The first snapshot request.loaded holds for id i.
FirstSnapshot(items, i) ==
  LET idx == {n \in 1..Len(items) : items[n].id = i}
  IN IF idx = {} THEN [id |-> 0, vals |-> NoRow]
     ELSE items[CHOOSE n \in idx : \A m \in idx : n <= m]

\* C35: the diff records of the reduced change-set are taken against the
\* snapshot of the first load of each entity: an updated entity has a record
\* exactly when it differs from that snapshot, with exactly the differing
\* columns.
C35_FirstLoadWins ==
  changeDict.made =>
    \A i \in {j \in result.update : FirstSnapshot(loaded.items, j).id # 0} :
      LET snap == FirstSnapshot(loaded.items, i)
          changed == {f \in Fields : objs[i].vals[f] # snap.vals[f]}
          recs == {r \in changeDict.update : r.id = i}
      IN IF changed = {} THEN recs = {}
         ELSE recs = {[id |-> i, fields |-> {<<f, objs[i].vals[f]>> : f \in changed}]}

----------------------------------------------------------------------------
(* Properties of ResourceManager.login (SpecLogin) *)

\* C24: a login whose credentials were accepted and that is over has
\* returned the dict with the token and the user id.
C24_LoginReturnsDict ==
  \A t \in Tasks : login[t].st \notin {"idle", "none", "auth"} => login[t].st = "dict"

\* C37: when logout(token) completes, the store holds no record for the
\* token, so that no scope can be opened with it.
C37_LogoutDestroys ==
  [][\A tok \in Tokens : logout'[tok] # logout[tok] => store'[tok].kind = "missing"]_vars

----------------------------------------------------------------------------
(* Properties of the gateway (SpecWs) *)

\* C28: a connection that has ended is in no entry of the users registry and
\* in no group's list.
C28_ClosedConnectionUnregistered ==
  \A c \in Conns :
    wsConn[c].st = "closed"
      => /\ \A u \in WsUserIds : wsUsers[u] # c
         /\ \A g \in GroupIds : \A n \in 1..Len(wsGroups[g]) : wsGroups[g][n] # c

\* C38: a step that ends one connection leaves the users registry entry of
\* every other connection as it was.
C38_TeardownKeepsOthers ==
  [][\A a \in Conns :
       (wsConn[a].st = "open" /\ wsConn'[a].st = "closed")
         => \A u \in WsUserIds : wsUsers[u] \notin {0, a} => wsUsers'[u] = wsUsers[u]]_vars

----------------------------------------------------------------------------
(* Properties of WSServer.start (SpecGw) *)

----------------------------------------------------------------------------
(* Properties of M2MResource.add (SpecAssoc) *)

\* C40: a call of add(keys) inserts exactly the pairs of keys that are not
\* associated yet and whose endpoints both exist, returns that set, and
\* leaves the rows and the other uncommitted change of the scope as they
\* were.
C40_AddExact ==
  [][assocCall'.n # assocCall.n =>
       LET want == get_existings(assocCall'.keys \ assocTx.pairs)
       IN /\ assocCall'.ret = want
          /\ assocTx'.pairs = assocTx.pairs \cup want
          /\ assocTx'.other = assocTx.other]_vars

====
